---- MODULE Spec2Model ----
(***************************************************************************)
(* mock-apollo-go: the file Watcher (pkg/watcher), which loads, validates  *)
(* and atomically publishes configuration snapshots, and the Apollo facade *)
(* (internal/routes/apollo), which parks long-poll sessions and wakes them *)
(* when a Watcher announces a change.                                      *)
(***************************************************************************)
EXTENDS Integers, Sequences, FiniteSets, TLC

(* ------------------------- configuration and bounds ------------------- *)
\* the most sources the facade is configured with (len(cfg.ConfigPath)), one
\* Watcher each
NumWatchers == 2
\* number of long-poll requests the clients make
NumSessions == 2
\* the poll timeout (cfg.PollTimeout) in clock ticks
PollTimeout == 1

Watchers == 1..NumWatchers
Sessions == 1..NumSessions

(* --------------------------- configuration data ------------------------ *)
\* map[string]string that may be nil
NilProps == [isNil |-> TRUE, kv |-> <<>>]
Props(kv) == [isNil |-> FALSE, kv |-> kv]

Namespace(rk, props, yml, yaml, json, xml) ==
    [ReleaseKey |-> rk, Properties |-> props, Yml |-> yml, Yaml |-> yaml,
     JSON |-> json, XML |-> xml]

NsProps == Namespace("abc", Props("mysql" :> "mysql://root@localhost/mysql"),
                     "", "", "", "")
NsRaw == Namespace("abc", Props(<<>>), "[raw]", "[raw]", "[raw]", "plain text")
NsNew == Namespace("def", Props("mysql" :> "mysql://root@remote/mysql"),
                   "", "", "", "")
NsJsonOnly == Namespace("", NilProps, "", "", "[]", "")

\* ConfigMap values: app -> cluster -> namespace -> Namespace
DocA == [app |-> [cluster |-> [ns |-> NsProps, ns2 |-> NsRaw]]]
DocB == [app2 |-> [cluster |-> [ns |-> NsNew]]]
DocBad == [app |-> [cluster |-> [ns |-> NsProps]],
           app3 |-> [cluster |-> [ns |-> NsJsonOnly]]]
DocEmpty == <<>>

\* what the source file holds: nothing (no file), bytes that are not yaml,
\* or the yaml text of a ConfigMap; SrcNone stands for an entry that
\* cfg.ConfigPath does not have
SrcNone == [kind |-> "none", cm |-> <<>>]
SrcMissing == [kind |-> "missing", cm |-> <<>>]
SrcMalformed == [kind |-> "malformed", cm |-> <<>>]
SrcYaml(d) == [kind |-> "yaml", cm |-> d]

\* what a write can leave in the file
Sources == {SrcMissing, SrcMalformed, SrcYaml(DocBad), SrcYaml(DocA), SrcYaml(DocB)}

\* afero.ReadFile
ReadFile(f) ==
    [err |-> IF f.kind = "missing" THEN "file does not exist" ELSE "", b |-> f]

\* yaml.Unmarshal(b, &cm)
Unmarshal(b) ==
    IF b.kind = "yaml" THEN [err |-> "", cm |-> b.cm]
    ELSE [err |-> "yaml: unmarshal errors", cm |-> <<>>]

(* ------------------------------ validation ----------------------------- *)
\* The errors the validation loops can return for one namespace, cluster,
\* app and document. Go ranges over a map in an unspecified order and the
\* first entry that fails a check returns, so a document with several bad
\* entries has several possible errors; it is accepted iff there is none.
NamespaceErrorsJsonCounts(appKey, clusterKey, nsKey, n) ==
    IF nsKey = "" THEN {<<"invalid namespace name", nsKey, appKey, clusterKey>>}
    ELSE IF n.Properties.isNil /\ n.Yml = "" /\ n.Yaml = "" /\ n.JSON = "" /\ n.XML = ""
    THEN {<<"invalid namespace", nsKey, appKey, clusterKey>>}
    ELSE {<<"invalid config key", k, appKey, clusterKey, nsKey>> :
              k \in {k \in DOMAIN n.Properties.kv : k = ""}}

\* yaml.Unmarshal of an embedded text into a map, and json.Unmarshal of one
\* into a list of maps, on the texts the documents here carry: "[raw]" is a
\* yaml sequence, not a map, and is not json
UnmarshalYamlMap(text) ==
    IF text \in {"", "a: 1"} THEN "" ELSE "yaml: unmarshal errors"

UnmarshalJSONList(text) ==
    IF text = "[]" THEN "" ELSE "invalid character"

\* what the checks of the embedded texts log for one namespace; the first
\* one is made when Yaml is not empty and parses Yml
BlobWarnings(appKey, clusterKey, nsKey, n) ==
    {<<"failed to parse yaml config", nsKey, appKey, clusterKey>> :
        x \in {x \in {n.Yml, n.Yaml} : n.Yaml # "" /\ UnmarshalYamlMap(x) # ""}}
    \cup {<<"failed to parse json config", nsKey, appKey, clusterKey>> :
        x \in {x \in {n.JSON} : n.JSON # "" /\ UnmarshalJSONList(x) # ""}}

NamespaceErrorsBlobsFail(appKey, clusterKey, nsKey, n) ==
    IF nsKey = "" THEN {<<"invalid namespace name", nsKey, appKey, clusterKey>>}
    ELSE IF n.Properties.isNil /\ n.Yml = "" /\ n.Yaml = "" /\ n.XML = ""
    THEN {<<"invalid namespace", nsKey, appKey, clusterKey>>}
    ELSE {<<"invalid config key", k, appKey, clusterKey, nsKey>> :
              k \in {k \in DOMAIN n.Properties.kv : k = ""}}
         \cup BlobWarnings(appKey, clusterKey, nsKey, n)

NamespaceErrors(appKey, clusterKey, nsKey, n) ==
    IF nsKey = "" THEN {<<"invalid namespace name", nsKey, appKey, clusterKey>>}
    ELSE IF n.Properties.isNil /\ n.Yml = "" /\ n.Yaml = "" /\ n.XML = ""
    THEN {<<"invalid namespace", nsKey, appKey, clusterKey>>}
    ELSE {<<"invalid config key", k, appKey, clusterKey, nsKey>> :
              k \in {k \in DOMAIN n.Properties.kv : k = ""}}

ClusterErrors(appKey, clusterKey, cluster) ==
    IF clusterKey = "" THEN {<<"invalid cluster name", clusterKey, appKey>>}
    ELSE IF DOMAIN cluster = {} THEN {<<"invalid cluster", clusterKey, appKey>>}
    ELSE UNION {NamespaceErrors(appKey, clusterKey, k, cluster[k]) : k \in DOMAIN cluster}

AppErrors(appKey, app) ==
    IF appKey = "" THEN {<<"invalid app name", appKey>>}
    ELSE IF DOMAIN app = {} THEN {<<"invalid app", appKey>>}
    ELSE UNION {ClusterErrors(appKey, k, app[k]) : k \in DOMAIN app}

ValidationErrorsNoEmptyCheck(c) ==
    UNION {AppErrors(k, c[k]) : k \in DOMAIN c}

ValidationErrors(c) ==
    IF DOMAIN c = {} THEN {<<"invalid config file">>}
    ELSE UNION {AppErrors(k, c[k]) : k \in DOMAIN c}

\* readConfigMap after the file has been read into b: parse, validate and say
\* whether w.cm.Store(cm) is reached
readConfigMapStoreUnvalidated(b) ==
    LET u == Unmarshal(b) IN
    IF u.err # "" THEN [errs |-> {<<u.err>>}, store |-> FALSE, cm |-> u.cm]
    ELSE [errs |-> ValidationErrors(u.cm), store |-> TRUE, cm |-> u.cm]

readConfigMap(b) ==
    LET u == Unmarshal(b) IN
    IF u.err # "" THEN [errs |-> {<<u.err>>}, store |-> FALSE, cm |-> u.cm]
    ELSE LET v == ValidationErrors(u.cm) IN
         [errs |-> v, store |-> v = {}, cm |-> u.cm]

(* -------------------------------- state -------------------------------- *)
VARIABLES
    file,      \* file[w]: what the source of Watcher w holds
    cm,        \* cm[w]: the atomic.Value of Watcher w
    fwEvent,   \* fwEvent[w]: the change detector has an event to hand over on fw.Event
    newPc,     \* newPc[w]: watcher.New: "unbuilt", "add" (fw.Add), "read", "parse", "done", or "nil" (New returned no Watcher)
    newBuf,    \* newBuf[w]: the bytes the initial load read
    newErr,    \* newErr[w]: the errors watcher.New may return (empty: nil)
    monPc,     \* monPc[w]: the monitoring loop: "off", "select", "parse", "send", "closed"
    monBuf,    \* monBuf[w]: the bytes the monitoring loop read
    rlPc,      \* rlPc[w]: a ReloadConfig call: "idle", "parse"
    rlBuf,     \* rlBuf[w]: the bytes ReloadConfig read
    rlErr,     \* rlErr[w]: whether ReloadConfig has returned, and the errors its last call may have returned (none: nil)
    rdSnap,    \* what the last Config() call of a reader returned
    qry,       \* the last call into the facade's read path: what was called, with what, and what it returned
    fwdPc,     \* fwdPc[w]: the forwarding loop of Apollo.watch: "off", "select", "lock", "range", "stopped", or "panic"
    fwdTodo,   \* fwdTodo[w]: the sessions the range over a.polls has still to visit
    ctxDone,   \* the context given to apollo.New is cancelled
    mu,        \* a.mu: 0 when free, else the Watcher whose forwarding loop holds it
    polls,     \* a.polls: the registered sessions
    sPc,       \* sPc[p]: newPoll of request p: "idle", "created", "wait", "returned"
    sNotif,    \* sNotif[p]: the notifications request p was made with
    sState,    \* sState[p]: "None", "Pending", "Changed", "Unchanged"
    sCause,    \* sCause[p]: what resolved p: "none", "event", "timeout", "cancel"
    sElapsed,  \* sElapsed[p]: ticks from the creation of p to its resolution; 0 again once newPoll returned
    sResp,     \* sResp[p]: the responses written for p, in order
    sRet       \* sRet[p]: what newPoll returned: "none" (not yet), "nil" or an error

wvars == <<file, cm, fwEvent, newPc, newBuf, newErr, monPc, monBuf, rlPc, rlBuf, rlErr, rdSnap, qry>>
cvars == <<fwdPc, fwdTodo, ctxDone, mu, polls>>
svars == <<sPc, sNotif, sState, sCause, sElapsed, sResp, sRet>>
vars == <<wvars, cvars, svars>>

NoConfig == [ok |-> FALSE, val |-> <<>>]
NoRead == [kind |-> "none", val |-> <<>>]
NoQuery == [op |-> "none"]
NoBuf == SrcMissing
NotCalled == [called |-> FALSE, errs |-> {}]
Returned(errs) == [called |-> TRUE, errs |-> errs]

\* the notification sequences the requests carry: request p asks about p
\* namespaces, so that no two requests carry the same sequence
Notification(ns, id) == [namespaceName |-> ns, notificationId |-> id]
RequestNotifications(p) == [i \in 1..p |-> Notification(IF i = 1 THEN "ns" ELSE "ns2", p + i)]

\* cfg.ConfigPath with n sources, each holding one of S
ConfigPaths(n, S) ==
    {f \in [Watchers -> S \cup {SrcNone}] :
       \A w \in Watchers : (f[w] = SrcNone) <=> (w > n)}

\* the sources cfg.ConfigPath names
Configured == {w \in Watchers : file[w] # SrcNone}

\* the facade configured with one source, as its tests configure it
InitWith(S) ==
    /\ file \in ConfigPaths(1, S)
    /\ cm = [w \in Watchers |-> NoConfig]
    /\ fwEvent = [w \in Watchers |-> FALSE]
    /\ newPc = [w \in Watchers |-> IF w = 1 THEN "read" ELSE "unbuilt"]
    /\ newBuf = [w \in Watchers |-> NoBuf]
    /\ newErr = [w \in Watchers |-> {}]
    /\ monPc = [w \in Watchers |-> IF w = 1 THEN "select" ELSE "off"]
    /\ monBuf = [w \in Watchers |-> NoBuf]
    /\ rlPc = [w \in Watchers |-> "idle"]
    /\ rlBuf = [w \in Watchers |-> NoBuf]
    /\ rlErr = [w \in Watchers |-> NotCalled]
    /\ rdSnap = NoRead
    /\ qry = NoQuery
    /\ fwdPc = [w \in Watchers |-> "off"]
    /\ fwdTodo = [w \in Watchers |-> {}]
    /\ ctxDone = FALSE
    /\ mu = 0
    /\ polls = {}
    /\ sPc = [p \in Sessions |-> "idle"]
    /\ sNotif = [p \in Sessions |-> <<>>]
    /\ sState = [p \in Sessions |-> "None"]
    /\ sCause = [p \in Sessions |-> "none"]
    /\ sElapsed = [p \in Sessions |-> 0]
    /\ sResp = [p \in Sessions |-> <<>>]
    /\ sRet = [p \in Sessions |-> "none"]

(* ------------------------------- Watcher ------------------------------- *)
\* w.cm.Store(cm): the published reference is replaced by the new map
StoreMerge(w, c) ==
    cm' = [cm EXCEPT ![w] = [ok |-> TRUE, val |-> c @@ cm[w].val]]

Store(w, c) ==
    cm' = [cm EXCEPT ![w] = [ok |-> TRUE, val |-> c]]

\* the second half of readConfigMap, shared by its three callers
Publish(w, r) ==
    IF r.store THEN Store(w, r.cm) ELSE cm' = cm

\* watcher.New returns to Apollo.watch, which starts the forwarding loop and
\* appends the Watcher; apollo.New goes on to the next source only when the
\* returned error is nil
WatchReturnNoForwardOnError(w, errs) ==
    LET next == errs = {} /\ w + 1 \in Configured IN
    /\ newErr' = [newErr EXCEPT ![w] = errs]
    /\ newPc' = [x \in Watchers |-> IF x = w THEN "done"
                                    ELSE IF next /\ x = w + 1 THEN "add"
                                    ELSE newPc[x]]
    /\ UNCHANGED monPc
    /\ fwdPc' = [fwdPc EXCEPT ![w] = IF errs = {} THEN "select" ELSE "off"]

WatchReturn(w, errs) ==
    LET next == errs = {} /\ w + 1 \in Configured IN
    /\ newErr' = [newErr EXCEPT ![w] = errs]
    /\ newPc' = [x \in Watchers |-> IF x = w THEN "done"
                                    ELSE IF next /\ x = w + 1 THEN "add"
                                    ELSE newPc[x]]
    /\ UNCHANGED monPc
    /\ fwdPc' = [fwdPc EXCEPT ![w] = "select"]

\* watcher.New up to the initial load: fw.Add(cfg.File) fails on a file that
\* does not exist and New returns (nil, err) with no goroutine started;
\* Apollo.watch starts its forwarding loop and appends what New returned all
\* the same, and apollo.New stops at the error. Otherwise the monitoring loop
\* and the change detector are started and the initial load follows.
NewAdd(w) ==
    /\ newPc[w] = "add"
    /\ IF file[w].kind = "missing"
       THEN /\ newPc' = [newPc EXCEPT ![w] = "nil"]
            /\ newErr' = [newErr EXCEPT ![w] = {<<"no such file or directory">>}]
            /\ fwdPc' = [fwdPc EXCEPT ![w] = "select"]
            /\ UNCHANGED monPc
       ELSE /\ newPc' = [newPc EXCEPT ![w] = "read"]
            /\ monPc' = [monPc EXCEPT ![w] = "select"]
            /\ UNCHANGED <<newErr, fwdPc>>
    /\ UNCHANGED <<file, cm, fwEvent, newBuf, monBuf, rlPc, rlBuf, rlErr, rdSnap, qry>>
    /\ UNCHANGED <<fwdTodo, ctxDone, mu, polls, svars>>

\* the initial load of watcher.New, first half: afero.ReadFile
NewRead(w) ==
    /\ newPc[w] = "read"
    /\ LET r == ReadFile(file[w]) IN
       IF r.err # ""
       THEN /\ WatchReturn(w, {<<r.err>>})
            /\ UNCHANGED newBuf
       ELSE /\ newPc' = [newPc EXCEPT ![w] = "parse"]
            /\ newBuf' = [newBuf EXCEPT ![w] = r.b]
            /\ UNCHANGED <<newErr, monPc, fwdPc>>
    /\ UNCHANGED <<file, cm, fwEvent, monBuf, rlPc, rlBuf, rlErr, rdSnap, qry>>
    /\ UNCHANGED <<fwdTodo, ctxDone, mu, polls, svars>>

\* the initial load of watcher.New, second half, and the return of New
NewLoad(w) ==
    /\ newPc[w] = "parse"
    /\ LET r == readConfigMap(newBuf[w]) IN
       /\ Publish(w, r)
       /\ WatchReturn(w, r.errs)
    /\ newBuf' = [newBuf EXCEPT ![w] = NoBuf]
    /\ UNCHANGED <<file, fwEvent, monBuf, rlPc, rlBuf, rlErr, rdSnap, qry>>
    /\ UNCHANGED <<fwdTodo, ctxDone, mu, polls, svars>>

MonitorRunning(w) == monPc[w] \in {"select", "parse", "send"}

\* the source is written (or removed); the change detector of a running
\* Watcher notices and has an event for the monitoring loop
SourceWrite(w, s) ==
    /\ w \in Configured
    /\ s # file[w]
    /\ file' = [file EXCEPT ![w] = s]
    /\ fwEvent' = [fwEvent EXCEPT ![w] = fwEvent[w] \/ MonitorRunning(w)]
    /\ UNCHANGED <<cm, newPc, newBuf, newErr, monPc, monBuf, rlPc, rlBuf, rlErr, rdSnap, qry>>
    /\ UNCHANGED <<cvars, svars>>

\* Watcher.TriggerEvent: a write event is sent on fw.Event
TriggerEventSkipsLoad(w) ==
    /\ newPc[w] = "done"
    /\ monPc[w] = "select"
    /\ ~fwEvent[w]
    /\ monPc' = [monPc EXCEPT ![w] = "send"]
    /\ UNCHANGED <<file, cm, fwEvent, newPc, newBuf, newErr, monBuf, rlPc, rlBuf, rlErr, rdSnap, qry>>
    /\ UNCHANGED <<cvars, svars>>

TriggerEvent(w) ==
    /\ newPc[w] = "done"
    /\ MonitorRunning(w)
    /\ ~fwEvent[w]
    /\ fwEvent' = [fwEvent EXCEPT ![w] = TRUE]
    /\ UNCHANGED <<file, cm, newPc, newBuf, newErr, monPc, monBuf, rlPc, rlBuf, rlErr, rdSnap, qry>>
    /\ UNCHANGED <<cvars, svars>>

\* the monitoring loop takes "case event := <-fw.Event" and reads the file
MonEvent(w) ==
    /\ monPc[w] = "select"
    /\ fwEvent[w]
    /\ fwEvent' = [fwEvent EXCEPT ![w] = FALSE]
    /\ LET r == ReadFile(file[w]) IN
       IF r.err # ""
       THEN UNCHANGED <<monPc, monBuf>>
       ELSE /\ monPc' = [monPc EXCEPT ![w] = "parse"]
            /\ monBuf' = [monBuf EXCEPT ![w] = r.b]
    /\ UNCHANGED <<file, cm, newPc, newBuf, newErr, rlPc, rlBuf, rlErr, rdSnap, qry>>
    /\ UNCHANGED <<cvars, svars>>

\* where the monitoring loop goes after readConfigMap: on success to
\* "updateChan <- struct{}{}", on an error (logged) back to the select
MonNextAlwaysSend(r) == "send"

MonNext(r) == IF r.errs = {} THEN "send" ELSE "select"

\* the monitoring loop finishes readConfigMap
MonLoad(w) ==
    /\ monPc[w] = "parse"
    /\ LET r == readConfigMap(monBuf[w]) IN
       /\ Publish(w, r)
       /\ monPc' = [monPc EXCEPT ![w] = MonNext(r)]
    /\ monBuf' = [monBuf EXCEPT ![w] = NoBuf]
    /\ UNCHANGED <<file, fwEvent, newPc, newBuf, newErr, rlPc, rlBuf, rlErr, rdSnap, qry>>
    /\ UNCHANGED <<cvars, svars>>

\* the monitoring loop takes "case <-ctx.Done()": fw.Close() and return
MonCtxDone(w) ==
    /\ monPc[w] = "select"
    /\ ctxDone
    /\ monPc' = [monPc EXCEPT ![w] = "closed"]
    /\ fwEvent' = [fwEvent EXCEPT ![w] = FALSE]
    /\ UNCHANGED <<file, cm, newPc, newBuf, newErr, monBuf, rlPc, rlBuf, rlErr, rdSnap, qry>>
    /\ UNCHANGED <<cvars, svars>>

\* Watcher.ReloadConfig, first half: afero.ReadFile
ReloadRead(w) ==
    /\ newPc[w] = "done"
    /\ rlPc[w] = "idle"
    /\ LET r == ReadFile(file[w]) IN
       IF r.err # ""
       THEN /\ rlErr' = [rlErr EXCEPT ![w] = Returned({<<r.err>>})]
            /\ UNCHANGED <<rlPc, rlBuf>>
       ELSE /\ rlPc' = [rlPc EXCEPT ![w] = "parse"]
            /\ rlBuf' = [rlBuf EXCEPT ![w] = r.b]
            /\ UNCHANGED rlErr
    /\ UNCHANGED <<file, cm, fwEvent, newPc, newBuf, newErr, monPc, monBuf, rdSnap, qry>>
    /\ UNCHANGED <<cvars, svars>>

\* Watcher.ReloadConfig, second half: it returns what readConfigMap returns
ReloadLoadNotify(w) ==
    /\ rlPc[w] = "parse"
    /\ LET r == readConfigMap(rlBuf[w]) IN
       /\ Publish(w, r)
       /\ rlErr' = [rlErr EXCEPT ![w] = Returned(r.errs)]
       /\ IF r.errs = {}
          THEN /\ fwdPc[w] = "select"
               /\ fwdPc' = [fwdPc EXCEPT ![w] = "lock"]
          ELSE UNCHANGED fwdPc
    /\ rlPc' = [rlPc EXCEPT ![w] = "idle"]
    /\ rlBuf' = [rlBuf EXCEPT ![w] = NoBuf]
    /\ UNCHANGED <<file, fwEvent, newPc, newBuf, newErr, monPc, monBuf, rdSnap, qry>>
    /\ UNCHANGED <<fwdTodo, ctxDone, mu, polls, svars>>

ReloadLoad(w) ==
    /\ rlPc[w] = "parse"
    /\ LET r == readConfigMap(rlBuf[w]) IN
       /\ Publish(w, r)
       /\ rlErr' = [rlErr EXCEPT ![w] = Returned(r.errs)]
    /\ rlPc' = [rlPc EXCEPT ![w] = "idle"]
    /\ rlBuf' = [rlBuf EXCEPT ![w] = NoBuf]
    /\ UNCHANGED <<file, fwEvent, newPc, newBuf, newErr, monPc, monBuf, rdSnap, qry>>
    /\ UNCHANGED <<cvars, svars>>

\* Watcher.Config: w.cm.Load().(ConfigMap); the type assertion panics when
\* nothing was ever stored
Config(w) ==
    IF cm[w].ok THEN [kind |-> "snap", val |-> cm[w].val]
    ELSE [kind |-> "panic", val |-> <<>>]

\* a reader calls Config() on a Watcher the facade holds
ReadConfig(w) ==
    /\ newPc[w] = "done"
    /\ rdSnap' = Config(w)
    /\ UNCHANGED <<file, cm, fwEvent, newPc, newBuf, newErr, monPc, monBuf, rlPc, rlBuf, rlErr, qry>>
    /\ UNCHANGED <<cvars, svars>>

\* main: cancel() on shutdown
CancelCtx ==
    /\ ~ctxDone
    /\ ctxDone' = TRUE
    /\ UNCHANGED <<fwdPc, fwdTodo, mu, polls>>
    /\ UNCHANGED <<wvars, svars>>

(* ------------------------------ PollSession ---------------------------- *)
\* cfg.Timeout of the session newPoll creates: a.cfg.PollTimeout
NewPollTimeoutShort == PollTimeout - 1

NewPollTimeout == PollTimeout

\* longpoll.New(ctx, cfg, w): a session holding the request's notifications
PollNew(p, n) ==
    /\ sNotif' = [sNotif EXCEPT ![p] = n]
    /\ sState' = [sState EXCEPT ![p] = "Pending"]

\* the session resolves: its outcome, its cause and the response it writes
Resolve(p, outcome, cause, rsp) ==
    /\ sState' = [sState EXCEPT ![p] = outcome]
    /\ sCause' = [sCause EXCEPT ![p] = cause]
    /\ sResp' = [sResp EXCEPT ![p] = Append(@, rsp)]

NotModified == [status |-> 304, body |-> <<>>]
Notified(p) == [status |-> 200, body |-> sNotif[p]]

\* Poll.Update: the wakeup is accepted without waiting for the session; a
\* session that is already resolved ignores it (Update returns an error,
\* which the caller logs)
PollUpdateAlways(p) ==
    /\ Resolve(p, "Changed", "event", Notified(p))
    /\ UNCHANGED <<sPc, sNotif, sElapsed, sRet>>

PollUpdateBlocking(p) ==
    /\ sState[p] = "Pending"
    /\ Resolve(p, "Changed", "event", Notified(p))
    /\ UNCHANGED <<sPc, sNotif, sElapsed, sRet>>

PollUpdate(p) ==
    IF sState[p] = "Pending"
    THEN /\ Resolve(p, "Changed", "event", Notified(p))
         /\ UNCHANGED <<sPc, sNotif, sElapsed, sRet>>
    ELSE UNCHANGED svars

\* the clock advances: every session that is not resolved gets older
Tick ==
    /\ \E p \in Sessions : sState[p] = "Pending" /\ sElapsed[p] < PollTimeout
    /\ sElapsed' = [p \in Sessions |->
                      IF sState[p] = "Pending" /\ sElapsed[p] < PollTimeout
                      THEN sElapsed[p] + 1 ELSE sElapsed[p]]
    /\ UNCHANGED <<sPc, sNotif, sState, sCause, sResp, sRet>>
    /\ UNCHANGED <<wvars, cvars>>

\* the timeout of a waiting session elapses
PollTimedOut(p) ==
    /\ sPc[p] = "wait"
    /\ sState[p] = "Pending"
    /\ sElapsed[p] >= NewPollTimeout
    /\ Resolve(p, "Unchanged", "timeout", NotModified)
    /\ UNCHANGED <<sPc, sNotif, sElapsed, sRet>>
    /\ UNCHANGED <<wvars, cvars>>

\* the context of the request of a waiting session is cancelled
PollCancelled(p) ==
    /\ sPc[p] = "wait"
    /\ sState[p] = "Pending"
    /\ Resolve(p, "Unchanged", "cancel", NotModified)
    /\ UNCHANGED <<sPc, sNotif, sElapsed, sRet>>
    /\ UNCHANGED <<wvars, cvars>>

(* ------------------------------- Apollo -------------------------------- *)
\* Apollo.newPoll up to longpoll.New; requests are numbered as they arrive
NewPoll(p) ==
    /\ sPc[p] = "idle"
    /\ \A q \in Sessions : q < p => sPc[q] # "idle"
    /\ sPc' = [sPc EXCEPT ![p] = "created"]
    /\ PollNew(p, RequestNotifications(p))
    /\ UNCHANGED <<sCause, sElapsed, sResp, sRet>>
    /\ UNCHANGED <<wvars, cvars>>

RegisterSkipAdd(p) ==
    /\ sPc[p] = "created"
    /\ mu = 0
    /\ polls' = polls
    /\ sPc' = [sPc EXCEPT ![p] = "wait"]
    /\ UNCHANGED <<sNotif, sState, sCause, sElapsed, sResp, sRet>>
    /\ UNCHANGED <<fwdPc, fwdTodo, ctxDone, mu>>
    /\ UNCHANGED wvars

\* newPoll: a.mu.Lock(); a.polls[p] = true; a.mu.Unlock(); then p.Wait()
Register(p) ==
    /\ sPc[p] = "created"
    /\ mu = 0
    /\ polls' = polls \cup {p}
    /\ sPc' = [sPc EXCEPT ![p] = "wait"]
    /\ UNCHANGED <<sNotif, sState, sCause, sElapsed, sResp, sRet>>
    /\ UNCHANGED <<fwdPc, fwdTodo, ctxDone, mu>>
    /\ UNCHANGED wvars

\* newPoll after p.Wait() returned: a.mu.Lock(); delete(a.polls, p);
\* a.mu.Unlock(); return nil
DeregisterSkip(p) ==
    polls' = polls

\* the error newPoll returns after the wait; longPolling answers 500 to any
\* other than nil
NewPollReturnCtxErr(p) ==
    IF sCause[p] = "cancel" THEN "context canceled" ELSE "nil"

NewPollReturn(p) == "nil"

DeregisterPoll(p) ==
    polls' = polls \ {p}

Deregister(p) ==
    /\ sPc[p] = "wait"
    /\ sState[p] # "Pending"
    /\ mu = 0
    /\ DeregisterPoll(p)
    /\ sPc' = [sPc EXCEPT ![p] = "returned"]
    /\ sRet' = [sRet EXCEPT ![p] = NewPollReturn(p)]
    /\ sElapsed' = [sElapsed EXCEPT ![p] = 0]
    /\ UNCHANGED <<sNotif, sState, sCause, sResp>>
    /\ UNCHANGED <<fwdPc, fwdTodo, ctxDone, mu>>
    /\ UNCHANGED wvars

\* the rendezvous on the unbuffered updateChan: the monitoring loop sends
\* (watcher.go "updateChan <- struct{}{}") and the forwarding loop receives
\* ("case <-w.UpdateEvent")
ForwardKeepSending(w) ==
    /\ monPc[w] = "send"
    /\ fwdPc[w] = "select"
    /\ monPc' = monPc
    /\ fwdPc' = [fwdPc EXCEPT ![w] = "lock"]
    /\ UNCHANGED <<file, cm, fwEvent, newPc, newBuf, newErr, monBuf, rlPc, rlBuf, rlErr, rdSnap, qry>>
    /\ UNCHANGED <<fwdTodo, ctxDone, mu, polls>>
    /\ UNCHANGED svars

Forward(w) ==
    /\ monPc[w] = "send"
    /\ fwdPc[w] = "select"
    /\ monPc' = [monPc EXCEPT ![w] = "select"]
    /\ fwdPc' = [fwdPc EXCEPT ![w] = "lock"]
    /\ UNCHANGED <<file, cm, fwEvent, newPc, newBuf, newErr, monBuf, rlPc, rlBuf, rlErr, rdSnap, qry>>
    /\ UNCHANGED <<fwdTodo, ctxDone, mu, polls>>
    /\ UNCHANGED svars

\* the forwarding loop: a.mu.Lock() and the start of "for p := range a.polls"
FwdLockNoMutex(w) ==
    /\ fwdPc[w] = "lock"
    /\ mu' = w
    /\ fwdPc' = [fwdPc EXCEPT ![w] = "range"]
    /\ fwdTodo' = [fwdTodo EXCEPT ![w] = polls]
    /\ UNCHANGED <<ctxDone, polls>>
    /\ UNCHANGED <<wvars, svars>>

FwdLock(w) ==
    /\ fwdPc[w] = "lock"
    /\ mu = 0
    /\ mu' = w
    /\ fwdPc' = [fwdPc EXCEPT ![w] = "range"]
    /\ fwdTodo' = [fwdTodo EXCEPT ![w] = polls]
    /\ UNCHANGED <<ctxDone, polls>>
    /\ UNCHANGED <<wvars, svars>>

\* one iteration of the range, in any order: p.Update()
FwdUpdateBreak(w, p) ==
    /\ fwdPc[w] = "range"
    /\ p \in fwdTodo[w]
    /\ PollUpdate(p)
    /\ fwdTodo' = [fwdTodo EXCEPT ![w] = {}]
    /\ UNCHANGED <<fwdPc, ctxDone, mu, polls>>
    /\ UNCHANGED wvars

FwdUpdateFirstWatcherOnly(w, p) ==
    /\ fwdPc[w] = "range"
    /\ p \in fwdTodo[w]
    /\ IF w = 1 THEN PollUpdate(p) ELSE UNCHANGED svars
    /\ fwdTodo' = [fwdTodo EXCEPT ![w] = @ \ {p}]
    /\ UNCHANGED <<fwdPc, ctxDone, mu, polls>>
    /\ UNCHANGED wvars

FwdUpdate(w, p) ==
    /\ fwdPc[w] = "range"
    /\ p \in fwdTodo[w]
    /\ PollUpdate(p)
    /\ fwdTodo' = [fwdTodo EXCEPT ![w] = @ \ {p}]
    /\ UNCHANGED <<fwdPc, ctxDone, mu, polls>>
    /\ UNCHANGED wvars

FwdUnlockRebroadcast(w) ==
    /\ fwdPc[w] = "range"
    /\ fwdTodo[w] = {}
    /\ mu' = 0
    /\ fwdPc' = [fwdPc EXCEPT ![w] = "lock"]
    /\ UNCHANGED <<fwdTodo, ctxDone, polls>>
    /\ UNCHANGED <<wvars, svars>>

\* the range is over: a.mu.Unlock() and back to the select
FwdUnlock(w) ==
    /\ fwdPc[w] = "range"
    /\ fwdTodo[w] = {}
    /\ mu' = 0
    /\ fwdPc' = [fwdPc EXCEPT ![w] = "select"]
    /\ UNCHANGED <<fwdTodo, ctxDone, polls>>
    /\ UNCHANGED <<wvars, svars>>

\* the forwarding loop takes "case <-ctx.Done()" and returns
FwdCtxDone(w) ==
    /\ fwdPc[w] = "select"
    /\ ctxDone
    /\ fwdPc' = [fwdPc EXCEPT ![w] = "stopped"]
    /\ UNCHANGED <<fwdTodo, ctxDone, mu, polls>>
    /\ UNCHANGED <<wvars, svars>>

\* the forwarding loop of a Watcher that is nil: entering the select
\* evaluates w.UpdateEvent, a nil pointer dereference, and the goroutine
\* panics, which ends the process
FwdNilDeref(w) ==
    /\ fwdPc[w] = "select"
    /\ newPc[w] = "nil"
    /\ fwdPc' = [fwdPc EXCEPT ![w] = "panic"]
    /\ UNCHANGED <<fwdTodo, ctxDone, mu, polls>>
    /\ UNCHANGED <<wvars, svars>>

Crashed == \E w \in Watchers : fwdPc[w] = "panic"

(* ------------------------- the facade's read path ---------------------- *)
\* a.w: the Watchers apollo.New has appended, in order (a nil one included)
Held == {w \in Watchers : newPc[w] \in {"done", "nil"}}

\* w.Config() as getNamespace calls it on an element of a.w: on a nil Watcher
\* the call dereferences nil
ConfigOf(w) ==
    IF newPc[w] = "nil" THEN [kind |-> "panic", val |-> <<>>] ELSE Config(w)

HeldConfigs == [i \in 1..Cardinality(Held) |-> ConfigOf(i)]

\* watcher.Namespace{}
ZeroNamespace == Namespace("", NilProps, "", "", "", "")

NamespaceFound(n) == [kind |-> "ok", err |-> "", ns |-> n]
NamespaceNotFound == [kind |-> "err", err |-> "namespace no found", ns |-> ZeroNamespace]
LookupPanic == [kind |-> "panic", err |-> "", ns |-> ZeroNamespace]

\* Apollo.getNamespace over the Config() results ws of a.w, from the i-th on:
\* the set of what it can return. The range over the apps of a snapshot
\* goes in an unspecified order and returns at the first app that has
\* cluster and namespace; appID is not looked at.
RECURSIVE getNamespaceFrom(_, _, _, _, _)
getNamespaceFrom(ws, i, appID, cluster, namespace) ==
    IF i > Len(ws) THEN {NamespaceNotFound}
    ELSE IF ws[i].kind = "panic" THEN {LookupPanic}
    ELSE LET c == ws[i].val
             hits == {a \in DOMAIN c : /\ cluster \in DOMAIN c[a]
                                       /\ namespace \in DOMAIN c[a][cluster]}
         IN IF hits # {}
            THEN {NamespaceFound(c[a][cluster][namespace]) : a \in hits}
            ELSE getNamespaceFrom(ws, i + 1, appID, cluster, namespace)

getNamespace(ws, appID, cluster, namespace) ==
    getNamespaceFrom(ws, 1, appID, cluster, namespace)

\* a namespace token of a request is a sequence of characters
RECURSIVE Str(_)
Str(cs) == IF cs = <<>> THEN "" ELSE Head(cs) \o Str(Tail(cs))

\* filepath.Ext: the suffix from the last dot of the last path element on,
\* empty when that element has no dot
RECURSIVE ExtFrom(_, _)
ExtFrom(path, i) ==
    IF i < 1 \/ path[i] = "/" THEN <<>>
    ELSE IF path[i] = "." THEN SubSeq(path, i, Len(path))
    ELSE ExtFrom(path, i - 1)

Ext(path) == ExtFrom(path, Len(path))

\* strings.HasSuffix and strings.TrimSuffix
HasSuffix(t, suffix) ==
    Len(t) >= Len(suffix) /\ SubSeq(t, Len(t) - Len(suffix) + 1, Len(t)) = suffix

TrimSuffix(t, suffix) ==
    IF HasSuffix(t, suffix) THEN SubSeq(t, 1, Len(t) - Len(suffix)) ELSE t

\* Apollo.parseNamespace: the namespace name and the extension asked for
parseNamespace(namespace) ==
    LET ext == Ext(namespace) IN
    IF Str(ext) \in {".properties", ".yml", ".xml"}
    THEN <<Str(TrimSuffix(namespace, ext)), Str(ext)>>
    ELSE <<Str(namespace), ".properties">>

\* Apollo.getNamespaceConfig: what it returns for an extension and a namespace
ContentOf(blob) == [kind |-> "content", content |-> blob]
PropertiesOf(props) == [kind |-> "properties", properties |-> props]
NilConfig == [kind |-> "nil"]

getNamespaceConfig(extension, namespace) ==
    CASE extension = ".yml" -> [err |-> "", cfg |-> ContentOf(namespace.Yaml)]
      [] extension = ".xml" -> [err |-> "", cfg |-> ContentOf(namespace.XML)]
      [] extension = ".properties" -> [err |-> "", cfg |-> PropertiesOf(namespace.Properties)]
      [] OTHER -> [err |-> "non-support format", cfg |-> NilConfig]

\* Apollo.queryConfig on the Config() results ws of a.w: the set of what it
\* can answer, with the error that made it answer 404. A panic of the
\* handler is recovered by the http server, which writes no response.
QueryFailed(err) == [status |-> 404, err |-> err, body |-> <<>>]
QueryPanic == [status |-> 0, err |-> "panic", body |-> <<>>]
QueryServed(appID, cluster, namespace, ns, cfg) ==
    [status |-> 200, err |-> "",
     body |-> [appId |-> appID, cluster |-> cluster, namespaceName |-> namespace,
               releaseKey |-> ns.ReleaseKey, configurations |-> cfg]]

queryConfig(ws, appID, cluster, token) ==
    LET parsed == parseNamespace(token)
        namespace == parsed[1]
        ext == parsed[2]
        answer(r) ==
            IF r.kind = "panic" THEN QueryPanic
            ELSE IF r.kind = "err" THEN QueryFailed(r.err)
            ELSE LET c == getNamespaceConfig(ext, r.ns) IN
                 IF c.err # "" THEN QueryFailed(c.err)
                 ELSE QueryServed(appID, cluster, namespace, r.ns, c.cfg)
    IN {answer(r) : r \in getNamespace(ws, appID, cluster, namespace)}

\* the names the requests ask for
AppIDs == {"app", "app2"}
Clusters == {"cluster", "cluster2"}
NamespaceNames == {"ns", "ns2", "ns404"}

\* a request handler calls a.getNamespace on the Watchers the facade holds
GetNamespaceLive(appID, cluster, namespace) ==
    /\ Held # {}
    /\ ~Crashed
    /\ \E r \in getNamespace(HeldConfigs, appID, cluster, namespace) :
         qry' = [op |-> "getNamespace", ws |-> HeldConfigs, appID |-> appID,
                 cluster |-> cluster, namespace |-> namespace, out |-> r]
    /\ UNCHANGED <<file, cm, fwEvent, newPc, newBuf, newErr, monPc, monBuf, rlPc, rlBuf, rlErr, rdSnap>>
    /\ UNCHANGED <<cvars, svars>>

\* the read path called on given arguments; it keeps no state between
\* calls, so a run makes one call
\* time.Second, a time.Duration: nanoseconds
Second == 1000000000

\* the WatchInterval of the watcher.Config that Apollo.watch builds: the
\* field is not set
FacadeWatchInterval == 0

\* validateConfig: the WatchInterval that watcher.New goes on with and hands
\* to fw.Start
validateConfigZeroOnly(interval) ==
    IF interval = 0 THEN Second ELSE interval

validateConfig(interval) ==
    IF interval < Second THEN Second ELSE interval

ValidateConfigCall(interval) ==
    /\ qry = NoQuery
    /\ qry' = [op |-> "validateConfig", interval |-> interval, out |-> validateConfig(interval)]
    /\ UNCHANGED <<file, cm, fwEvent, newPc, newBuf, newErr, monPc, monBuf, rlPc, rlBuf, rlErr, rdSnap>>
    /\ UNCHANGED <<cvars, svars>>

ParseNamespaceCall(token) ==
    /\ qry = NoQuery
    /\ qry' = [op |-> "parseNamespace", token |-> token, out |-> parseNamespace(token)]
    /\ UNCHANGED <<file, cm, fwEvent, newPc, newBuf, newErr, monPc, monBuf, rlPc, rlBuf, rlErr, rdSnap>>
    /\ UNCHANGED <<cvars, svars>>

GetNamespaceCall(ws, appID, cluster, namespace) ==
    /\ qry = NoQuery
    /\ \E r \in getNamespace(ws, appID, cluster, namespace) :
         qry' = [op |-> "getNamespace", ws |-> ws, appID |-> appID,
                 cluster |-> cluster, namespace |-> namespace, out |-> r]
    /\ UNCHANGED <<file, cm, fwEvent, newPc, newBuf, newErr, monPc, monBuf, rlPc, rlBuf, rlErr, rdSnap>>
    /\ UNCHANGED <<cvars, svars>>

GetNamespaceConfigCall(extension, namespace) ==
    /\ qry = NoQuery
    /\ qry' = [op |-> "getNamespaceConfig", extension |-> extension,
               namespace |-> namespace, out |-> getNamespaceConfig(extension, namespace)]
    /\ UNCHANGED <<file, cm, fwEvent, newPc, newBuf, newErr, monPc, monBuf, rlPc, rlBuf, rlErr, rdSnap>>
    /\ UNCHANGED <<cvars, svars>>

QueryConfigCall(ws, appID, cluster, token) ==
    /\ qry = NoQuery
    /\ \E r \in queryConfig(ws, appID, cluster, token) :
         qry' = [op |-> "queryConfig", ws |-> ws, appID |-> appID,
                 cluster |-> cluster, token |-> token, out |-> r]
    /\ UNCHANGED <<file, cm, fwEvent, newPc, newBuf, newErr, monPc, monBuf, rlPc, rlBuf, rlErr, rdSnap>>
    /\ UNCHANGED <<cvars, svars>>

(* ---------------------------- specifications --------------------------- *)
\* what the file holds when watcher.New is called (fw.Add needs it to
\* exist): nothing, which parses to an empty map, or a document that loads
InitSources == {SrcYaml(DocEmpty), SrcYaml(DocA)}

Init == InitWith(InitSources)

WatcherStep(w) ==
    \/ NewRead(w)
    \/ NewLoad(w)
    \/ MonEvent(w)
    \/ MonLoad(w)
    \/ MonCtxDone(w)
    \/ Forward(w)
    \/ FwdLock(w)
    \/ FwdUnlock(w)
    \/ FwdCtxDone(w)

SessionStep(p) ==
    \/ NewPoll(p)
    \/ Register(p)
    \/ PollTimedOut(p)
    \/ PollCancelled(p)
    \/ Deregister(p)

\* the Watchers alone, under every source, with ReloadConfig callers and a
\* reader; no long-poll request is made
NextLoad ==
    \/ \E w \in Watchers : \E s \in Sources : SourceWrite(w, s)
    \/ \E w \in Watchers : TriggerEvent(w)
    \/ \E w \in Watchers : ReloadRead(w)
    \/ \E w \in Watchers : ReloadLoad(w)
    \/ \E w \in Watchers : ReadConfig(w)
    \/ \E w \in Watchers : WatcherStep(w)
    \/ CancelCtx

SpecLoad == Init /\ [][NextLoad]_vars

\* the sources of the long-poll runs: one that loads and one that does not
PollSources == {SrcYaml(DocA), SrcMalformed}

InitPoll == InitWith(PollSources)

\* the facade with its long-poll requests
Next ==
    \/ \E w \in Watchers : \E s \in PollSources : SourceWrite(w, s)
    \/ \E w \in Watchers : TriggerEvent(w)
    \/ \E w \in Watchers : WatcherStep(w)
    \/ \E w \in Watchers : \E p \in Sessions : FwdUpdate(w, p)
    \/ \E p \in Sessions : SessionStep(p)
    \/ Tick
    \/ CancelCtx

Spec == InitPoll /\ [][Next]_vars

\* the facade with its long-poll requests and ReloadConfig callers, while no
\* timeout elapses and nothing shuts down
NextReload ==
    \/ \E w \in Watchers : \E s \in PollSources : SourceWrite(w, s)
    \/ \E w \in Watchers : TriggerEvent(w)
    \/ \E w \in Watchers : ReloadRead(w)
    \/ \E w \in Watchers : ReloadLoad(w)
    \/ \E w \in Watchers : NewRead(w) \/ NewLoad(w) \/ MonEvent(w) \/ MonLoad(w)
    \/ \E w \in Watchers : Forward(w) \/ FwdLock(w) \/ FwdUnlock(w)
    \/ \E w \in Watchers : \E p \in Sessions : FwdUpdate(w, p)
    \/ \E p \in Sessions : NewPoll(p) \/ Register(p) \/ PollCancelled(p) \/ Deregister(p)

SpecReload == InitPoll /\ [][NextReload]_vars

\* the scheduler runs every goroutine that can take a step, the clock
\* advances, and sync.Mutex hands the lock to a goroutine that keeps waiting
\* for it
Fairness ==
    /\ \A w \in Watchers :
         /\ WF_vars(NewRead(w)) /\ WF_vars(NewLoad(w))
         /\ WF_vars(MonEvent(w)) /\ WF_vars(MonLoad(w)) /\ WF_vars(MonCtxDone(w))
         /\ WF_vars(Forward(w)) /\ WF_vars(FwdUnlock(w)) /\ WF_vars(FwdCtxDone(w))
         /\ SF_vars(FwdLock(w))
         /\ \A p \in Sessions : WF_vars(FwdUpdate(w, p))
    /\ \A p \in Sessions :
         /\ SF_vars(Register(p)) /\ SF_vars(Deregister(p))
         /\ WF_vars(PollTimedOut(p))
    /\ WF_vars(Tick)

FairSpec == Spec /\ Fairness

\* construction from fw.Add on, on a source that may not exist yet
NewSources == {SrcMissing, SrcYaml(DocEmpty), SrcYaml(DocA), SrcYaml(DocB)}

\* the facade as apollo.New finds it when it calls a.watch on the first of
\* its n sources
InitAdd(n, S) ==
    /\ file \in ConfigPaths(n, S)
    /\ cm = [w \in Watchers |-> NoConfig]
    /\ fwEvent = [w \in Watchers |-> FALSE]
    /\ newPc = [w \in Watchers |-> IF w = 1 THEN "add" ELSE "unbuilt"]
    /\ newBuf = [w \in Watchers |-> NoBuf]
    /\ newErr = [w \in Watchers |-> {}]
    /\ monPc = [w \in Watchers |-> "off"]
    /\ monBuf = [w \in Watchers |-> NoBuf]
    /\ rlPc = [w \in Watchers |-> "idle"]
    /\ rlBuf = [w \in Watchers |-> NoBuf]
    /\ rlErr = [w \in Watchers |-> NotCalled]
    /\ rdSnap = NoRead
    /\ qry = NoQuery
    /\ fwdPc = [w \in Watchers |-> "off"]
    /\ fwdTodo = [w \in Watchers |-> {}]
    /\ ctxDone = FALSE
    /\ mu = 0
    /\ polls = {}
    /\ sPc = [p \in Sessions |-> "idle"]
    /\ sNotif = [p \in Sessions |-> <<>>]
    /\ sState = [p \in Sessions |-> "None"]
    /\ sCause = [p \in Sessions |-> "none"]
    /\ sElapsed = [p \in Sessions |-> 0]
    /\ sResp = [p \in Sessions |-> <<>>]
    /\ sRet = [p \in Sessions |-> "none"]

InitNew == InitAdd(1, NewSources)

\* the facade from apollo.New on, with its request handlers looking
\* namespaces up; a panic of a goroutine ends the process
NextNew ==
    \/ \E w \in Watchers : \E s \in NewSources : SourceWrite(w, s)
    \/ \E w \in Watchers : FwdNilDeref(w)
    \/ ~Crashed /\ \E w \in Watchers : NewAdd(w)
    \/ ~Crashed /\ \E w \in Watchers : NewRead(w) \/ NewLoad(w)
    \/ ~Crashed /\ \E w \in Watchers : MonEvent(w) \/ MonLoad(w)
    \/ ~Crashed /\ \E w \in Watchers : Forward(w) \/ FwdLock(w) \/ FwdUnlock(w)
    \/ \E a \in AppIDs : \E c \in Clusters : \E n \in NamespaceNames :
         GetNamespaceLive(a, c, n)

SpecNew == InitNew /\ [][NextNew]_vars

\* the namespaces, and the documents built from them, that the validation
\* is run on: every kind of content alone, none, and every kind of empty
\* key and empty map at every level
NsEmptyProps == Namespace("", Props(<<>>), "", "", "", "")
NsYmlOnly == Namespace("", NilProps, "a: 1", "", "", "")
NsYamlOnly == Namespace("", NilProps, "", "a: 1", "", "")
NsXmlOnly == Namespace("", NilProps, "", "", "", "<a/>")
NsNothing == Namespace("", NilProps, "", "", "", "")
NsEmptyKey == Namespace("", Props("" :> "v"), "", "", "", "")
NsEmptyKeyYml == Namespace("", Props(("" :> "v") @@ ("k" :> "v")), "a: 1", "", "", "")

NsBadYml == Namespace("", Props(<<>>), "[raw]", "", "", "")
NsBadYaml == Namespace("", NilProps, "", "[raw]", "", "")
NsBadJson == Namespace("", Props(<<>>), "", "", "[raw]", "")

NsCatalog ==
    {NsProps, NsEmptyProps, NsJsonOnly, NsYmlOnly, NsYamlOnly, NsXmlOnly,
     NsNothing, NsEmptyKey, NsEmptyKeyYml, NsBadYml, NsBadYaml, NsBadJson}

NsMaps ==
    {<<>>} \cup {k :> n : k \in {"", "ns"}, n \in NsCatalog}
           \cup {("ns" :> n) @@ ("ns2" :> m) : n, m \in NsCatalog}

ClusterMaps ==
    {<<>>} \cup {k :> m : k \in {"", "cluster"}, m \in NsMaps}

ValidateDocs ==
    {<<>>} \cup {k :> c : k \in {"", "app"}, c \in ClusterMaps}
           \cup {("app" :> ("cluster" :> ("ns" :> NsProps))) @@ ("app2" :> c) :
                    c \in ClusterMaps}

ValidateSources == {SrcYaml(d) : d \in ValidateDocs}

InitValidate == InitWith(ValidateSources)

\* the initial load of watcher.New on each of these documents
NextValidate ==
    \/ \E w \in Watchers : NewRead(w)
    \/ \E w \in Watchers : NewLoad(w)

SpecValidate == InitValidate /\ [][NextValidate]_vars

\* the namespace tokens of the requests
TokNs == <<"n", "s">>
TokNs404 == <<"n", "s", "4", "0", "4">>
TokNsProperties == <<"n", "s", ".", "p", "r", "o", "p", "e", "r", "t", "i", "e", "s">>
TokNs2Yml == <<"n", "s", "2", ".", "y", "m", "l">>
TokNs2Yaml == <<"n", "s", "2", ".", "y", "a", "m", "l">>
TokNs2Json == <<"n", "s", "2", ".", "j", "s", "o", "n">>
TokNs2Xml == <<"n", "s", "2", ".", "x", "m", "l">>
TokNsTxt == <<"n", "s", ".", "t", "x", "t">>
TokDottedYml == <<"a", ".", "b", ".", "y", "m", "l">>
TokDotOnly == <<"n", "s", ".">>

Tokens ==
    {TokNs, TokNs404, TokNsProperties, TokNs2Yml, TokNs2Yaml, TokNs2Json,
     TokNs2Xml, TokNsTxt, TokDottedYml, TokDotOnly}

\* the extensions getNamespaceConfig is called with
Extensions == {".properties", ".yml", ".yaml", ".xml", ".json", ".txt", ""}

\* a namespace whose blobs all differ
NsFull == Namespace("abc", Props("a" :> "b"), "yml: 1", "yaml: 1", "[{}]", "<x/>")

ProjectedNamespaces == {NsProps, NsRaw, NsFull, NsEmptyProps, ZeroNamespace}

\* published snapshots: two apps that use the same cluster and namespace
\* names, and a source that defines a triple DocA defines too
DocShared == [app |-> [cluster |-> [ns |-> NsProps]],
              app2 |-> [cluster |-> [ns |-> NsNew]]]
DocOverlap == [app |-> [cluster |-> [ns |-> NsFull]]]
\* a namespace whose name has a dot in it
DocDotted == "app" :> ("cluster" :> ("ns.txt" :> NsNew))

LookupDocs == {DocA, DocB, DocShared, DocOverlap, DocDotted}

\* the most Watchers the facade holds in a lookup
MaxHeld == 2

\* what Config() returns on each Watcher of a.w, each having published
SnapshotLists ==
    UNION {[1..k -> {[kind |-> "snap", val |-> d] : d \in LookupDocs}] : k \in 1..MaxHeld}

InitFacade == InitWith({SrcYaml(DocA)})

\* the intervals a watcher.Config is made with: what the facade passes,
\* negative ones, and those around one second
WatchIntervals ==
    {FacadeWatchInterval, 0 - Second, 0 - 1, 1, Second - 1, Second, Second + 1, 2 * Second}

\* FlagArray.Set and FlagArray.Insert on the array i
Set(i, value) == Append(i, value)

InsertAppends(i, value) == Append(i, value)

Insert(i, value) == <<value>> \o i

\* a call on the FlagArray: flag.Parse calls Set once for every -file
\* argument, writeEnvConf calls Insert with the name of the file it wrote
SetCall(value) == [fn |-> "Set", value |-> value]
InsertCall(value) == [fn |-> "Insert", value |-> value]

\* the array after the calls, made one after the other on the array i
RECURSIVE RunCalls(_, _)
RunCalls(i, calls) ==
    IF calls = <<>> THEN i
    ELSE LET c == Head(calls) IN
         RunCalls(IF c.fn = "Set" THEN Set(i, c.value) ELSE Insert(i, c.value),
                  Tail(calls))

\* the most calls made on one FlagArray
MaxCalls == 3

FlagValues == {"a.yaml", "b.yaml", "mock_1.yaml"}

CallLists ==
    UNION {[1..k -> {SetCall(v) : v \in FlagValues} \cup {InsertCall(v) : v \in FlagValues}] :
             k \in 0..MaxCalls}

\* the calls are made on filePaths, which starts empty
FlagArrayCall(calls) ==
    /\ qry = NoQuery
    /\ qry' = [op |-> "FlagArray", calls |-> calls, out |-> RunCalls(<<>>, calls)]
    /\ UNCHANGED <<file, cm, fwEvent, newPc, newBuf, newErr, monPc, monBuf, rlPc, rlBuf, rlErr, rdSnap>>
    /\ UNCHANGED <<cvars, svars>>

\* the read path of the facade, and validateConfig, on every argument
NextFacade ==
    \/ \E t \in Tokens : ParseNamespaceCall(t)
    \/ \E ws \in SnapshotLists : \E a \in AppIDs : \E c \in Clusters :
         \E n \in NamespaceNames : GetNamespaceCall(ws, a, c, n)
    \/ \E e \in Extensions : \E n \in ProjectedNamespaces : GetNamespaceConfigCall(e, n)
    \/ \E ws \in SnapshotLists : \E a \in AppIDs : \E c \in Clusters :
         \E t \in Tokens : QueryConfigCall(ws, a, c, t)
    \/ \E d \in WatchIntervals : ValidateConfigCall(d)
    \/ \E calls \in CallLists : FlagArrayCall(calls)

SpecFacade == InitFacade /\ [][NextFacade]_vars

\* the facade over one source that is rewritten with one document or the
\* other, or with bytes that are not yaml, and its long-poll requests, while
\* no timeout elapses and nothing is cancelled
NotifySources == {SrcYaml(DocA), SrcYaml(DocB), SrcMalformed}

InitNotify == InitWith({SrcYaml(DocA)})

NextNotify ==
    \/ \E w \in Watchers : \E s \in NotifySources : SourceWrite(w, s)
    \/ \E w \in Watchers : NewRead(w) \/ NewLoad(w)
    \/ \E w \in Watchers : MonEvent(w) \/ MonLoad(w)
    \/ \E w \in Watchers : Forward(w) \/ FwdLock(w) \/ FwdUnlock(w)
    \/ \E w \in Watchers : \E p \in Sessions : FwdUpdate(w, p)
    \/ \E p \in Sessions : NewPoll(p) \/ Register(p) \/ Deregister(p)

SpecNotify == InitNotify /\ [][NextNotify]_vars

\* the facade configured with NumWatchers sources, each holding a document
\* that loads or bytes that are not yaml, and its long-poll requests, while
\* no timeout elapses and nothing is cancelled
MultiSources == {SrcYaml(DocA), SrcMalformed}

InitMulti == InitAdd(NumWatchers, MultiSources)

NextMulti ==
    \/ \E w \in Watchers : \E s \in MultiSources : SourceWrite(w, s)
    \/ \E w \in Watchers : NewAdd(w) \/ NewRead(w) \/ NewLoad(w)
    \/ \E w \in Watchers : MonEvent(w) \/ MonLoad(w)
    \/ \E w \in Watchers : Forward(w) \/ FwdLock(w) \/ FwdUnlock(w)
    \/ \E w \in Watchers : \E p \in Sessions : FwdUpdate(w, p)
    \/ \E p \in Sessions : NewPoll(p) \/ Register(p) \/ Deregister(p)

SpecMulti == InitMulti /\ [][NextMulti]_vars

(* -------------------------------- claims ------------------------------- *)
\* the documents that pass the validation in full
WholeDocs ==
    {s.cm : s \in {x \in Sources \cup InitSources :
                     x.kind = "yaml" /\ ValidationErrors(x.cm) = {}}}

\* C1: whatever the interleaving of the initial load, ReloadConfig calls and
\* monitored loads with Config() reads, the snapshot a reader obtains, and
\* the one a Watcher holds, is one whole document that passed the validation:
\* never a mixture of two documents, never a document that failed.
C1_SnapshotIsOneValidDocument ==
    /\ rdSnap.kind = "snap" =>
         rdSnap.val \in WholeDocs /\ ValidationErrors(rdSnap.val) = {}
    /\ \A w \in Watchers : cm[w].ok => cm[w].val \in WholeDocs

\* a reader holds one document while the Watcher has published another and a
\* ReloadConfig call and the monitoring loop are both in the middle of a load
C1_Witness ==
    /\ rdSnap.kind = "snap" /\ rdSnap.val = DocB
    /\ cm[1].ok /\ cm[1].val = DocA
    /\ rlPc[1] = "parse" /\ monPc[1] = "parse"

\* the steps in which a load attempt of Watcher w ends with an error
FailedLoad(w) ==
    \/ NewRead(w) /\ newPc'[w] = "done"
    \/ NewLoad(w) /\ newErr'[w] # {}
    \/ ReloadRead(w) /\ rlPc'[w] = "idle"
    \/ ReloadLoad(w) /\ rlErr'[w].errs # {}
    \/ MonEvent(w) /\ monPc'[w] = "select"
    \/ MonLoad(w) /\ monPc'[w] = "select"

\* C2: a load attempt that fails (file unreadable, not yaml, or rejected by
\* the validation) leaves the published snapshot as it was: Config() returns
\* after the attempt what it returned before it.
C2_FailedLoadKeepsSnapshot ==
    [][\A w \in Watchers : FailedLoad(w) => cm'[w] = cm[w]]_vars

\* ReloadConfig has failed on a document the validation rejects while a
\* snapshot was published, and a monitored load has failed to read the file
C2_Witness ==
    /\ cm[1].ok /\ cm[1].val = DocA
    /\ rlErr[1].called /\ rlErr[1].errs = ValidationErrors(DocBad)
    /\ file[1] = SrcMissing /\ monPc[1] = "select" /\ ~fwEvent[1]

\* C3: ReloadConfig emits no change event, whether it fails or succeeds: a
\* step of it leaves the monitoring loop, the forwarding loop, the registry
\* and every session as they were (a Pending session stays Pending), and a
\* successful call has replaced the published snapshot.
C3_ReloadConfigIsSilent ==
    [][\A w \in Watchers :
         /\ (ReloadRead(w) \/ ReloadLoad(w)) =>
              /\ UNCHANGED <<monPc, fwEvent, fwdPc, fwdTodo, mu, polls>>
              /\ UNCHANGED svars
         /\ (ReloadLoad(w) /\ rlErr'[w].errs = {}) =>
              cm'[w] = [ok |-> TRUE, val |-> rlBuf[w].cm]]_vars

\* ReloadConfig has succeeded and published after a failed initial load, the
\* sessions are all registered and still Pending, and the loops are idle
C3_Witness ==
    /\ rlErr[1].called /\ rlErr[1].errs = {}
    /\ newErr[1] # {} /\ cm[1].ok
    /\ polls = Sessions
    /\ \A p \in Sessions : sState[p] = "Pending"
    /\ monPc[1] = "select" /\ fwdPc[1] = "select" /\ ~fwEvent[1]

\* the monitoring loop of w starts to offer a change event on updateChan
EmitsEvent(w) == monPc[w] # "send" /\ monPc'[w] = "send"

AcceptedNewLoad(w) == NewLoad(w) /\ newErr'[w] = {}
AcceptedMonLoad(w) == MonLoad(w) /\ readConfigMap(monBuf[w]).errs = {}

\* C4 as stated: every accepted load other than a ReloadConfig call emits a
\* change event, and a rejected one emits none.
C4_EveryAcceptedLoadEmits ==
    [][\A w \in Watchers :
         /\ (AcceptedNewLoad(w) \/ AcceptedMonLoad(w)) => EmitsEvent(w)
         /\ (FailedLoad(w) => ~EmitsEvent(w))]_vars

\* C4, amended: an accepted load of the monitoring loop publishes the
\* snapshot and offers one change event, which one receive of the forwarding
\* loop takes before the monitoring loop selects again; no other step (the
\* initial load of watcher.New, ReloadConfig, a rejected load) emits one.
C4_MonitoredLoadEmitsOnce ==
    [][\A w \in Watchers :
         /\ AcceptedMonLoad(w) =>
              /\ cm'[w] = [ok |-> TRUE, val |-> monBuf[w].cm]
              /\ EmitsEvent(w)
         /\ EmitsEvent(w) => AcceptedMonLoad(w)
         /\ (monPc[w] = "send" /\ monPc'[w] # "send") =>
              /\ Forward(w)
              /\ monPc'[w] = "select"
              /\ fwdPc[w] = "select" /\ fwdPc'[w] = "lock"]_vars

\* the initial load failed, a later monitored load was accepted and
\* published, and its change event is on offer
C4_Witness ==
    /\ newPc[1] = "done" /\ newErr[1] # {}
    /\ cm[1].ok /\ cm[1].val = DocB
    /\ monPc[1] = "send" /\ fwdPc[1] = "select"

\* the response a Changed session gives: 200 with the notifications its
\* request was made with
ChangedResponse(p) == <<[status |-> 200, body |-> RequestNotifications(p)]>>

\* C5: one change event resolves every session that is registered when the
\* broadcast runs: each session the range has visited is resolved, as Changed
\* with exactly its own notifications unless its timeout or its cancellation
\* resolved it first.
C5_BroadcastResolvesAll ==
    \A w \in Watchers : fwdPc[w] = "range" =>
      \A p \in polls \ fwdTodo[w] :
        /\ sState[p] \in {"Changed", "Unchanged"}
        /\ sState[p] = "Unchanged" => sCause[p] \in {"timeout", "cancel"}
        /\ sState[p] = "Changed" => sCause[p] = "event" /\ sResp[p] = ChangedResponse(p)

\* one broadcast has visited NumSessions >= 2 registered sessions and all are
\* Changed, each with its own notifications
C5_Witness ==
    /\ NumSessions >= 2
    /\ fwdPc[1] = "range" /\ fwdTodo[1] = {}
    /\ polls = Sessions
    /\ \A p \in Sessions : sState[p] = "Changed" /\ sResp[p] = ChangedResponse(p)
    /\ \A p, q \in Sessions : p # q => sResp[p] # sResp[q]

Resolved(p) == sState[p] \in {"Changed", "Unchanged"}

\* C6: a session leaves Pending once: a resolved session keeps its outcome,
\* its cause and its response in every later step, and exactly one response
\* is written for a resolved session and none for a Pending one.
C6_ResolvedExactlyOnce ==
    /\ [](\A p \in Sessions : Len(sResp[p]) = IF Resolved(p) THEN 1 ELSE 0)
    /\ [][\A p \in Sessions : Resolved(p) =>
            /\ sState'[p] = sState[p]
            /\ sCause'[p] = sCause[p]
            /\ sResp'[p] = sResp[p]]_vars

\* a session that timed out is still registered when a later broadcast
\* signals it
C6_Witness ==
    /\ sCause[1] = "timeout" /\ sState[1] = "Unchanged"
    /\ fwdPc[1] = "range" /\ 1 \in polls \ fwdTodo[1]
    /\ sResp[1] = <<NotModified>>

\* C7: a waiting session eventually resolves, and a session resolved by
\* neither a change event nor a cancellation is resolved by its timeout, not
\* before PollTimeout has elapsed, as Unchanged with an empty 304 response.
C7_TimeoutNotBeforeT ==
    /\ [](\A p \in Sessions :
            (sPc[p] = "wait" /\ Resolved(p) /\ sCause[p] \notin {"event", "cancel"}) =>
              /\ sCause[p] = "timeout"
              /\ sElapsed[p] >= PollTimeout
              /\ sState[p] = "Unchanged"
              /\ sResp[p] = <<NotModified>>)
    /\ \A p \in Sessions : (sPc[p] = "wait") ~> Resolved(p)

\* a session has timed out while another one, registered with it, was
\* resolved by a change event
C7_Witness ==
    /\ sPc[1] = "wait" /\ sCause[1] = "timeout" /\ sElapsed[1] = PollTimeout
    /\ sCause[2] = "event"

\* C8: a session whose request is cancelled while it is Pending resolves
\* Unchanged with an empty 304 response, newPoll returns nil (so longPolling
\* answers no 500), and newPoll does return.
C8_CancelIsUnchanged ==
    /\ [](\A p \in Sessions : sCause[p] = "cancel" =>
            /\ sState[p] = "Unchanged"
            /\ sResp[p] = <<NotModified>>
            /\ sRet[p] \in {"none", "nil"})
    /\ \A p \in Sessions : (sCause[p] = "cancel") ~> (sPc[p] = "returned" /\ sRet[p] = "nil")

\* a cancelled request has returned before any timeout could elapse
C8_Witness ==
    /\ sCause[1] = "cancel" /\ sPc[1] = "returned" /\ sRet[1] = "nil"
    /\ sPc[2] = "wait" /\ sState[2] = "Pending" /\ sElapsed[2] = 0

\* C9: a request whose newPoll has returned is not in the registry, only
\* waiting requests are, and once every request made has returned the
\* registry is empty.
C9_ReturnedIsDeregistered ==
    /\ \A p \in Sessions : sPc[p] = "returned" => p \notin polls
    /\ \A p \in polls : sPc[p] = "wait"
    /\ (\A p \in Sessions : sPc[p] \in {"idle", "returned"}) => polls = {}

\* every request has returned, one after a change event and one after its
\* timeout, and the registry is empty
C9_Witness ==
    /\ \A p \in Sessions : sPc[p] = "returned"
    /\ sCause[1] = "event" /\ sCause[2] = "timeout"
    /\ polls = {}

\* C10: the broadcast does not wait for a session: whoever holds the registry
\* lock is in its range and its next step is enabled, and the lock is always
\* released again.
C10_BroadcastNeverBlocks ==
    /\ [](\A w \in Watchers : mu = w =>
            /\ fwdPc[w] = "range"
            /\ (fwdTodo[w] = {} \/ \E p \in fwdTodo[w] : ENABLED FwdUpdate(w, p)))
    /\ (mu # 0) ~> (mu = 0)

\* the broadcast holds the lock, has signalled a session that had already
\* timed out and is waiting for the lock to deregister, and has another
\* resolved session still to signal
C10_Witness ==
    /\ mu = 1 /\ fwdPc[1] = "range"
    /\ sCause[1] = "timeout" /\ sPc[1] = "wait" /\ 1 \in polls \ fwdTodo[1]
    /\ 2 \in fwdTodo[1] /\ sCause[2] = "cancel"

\* the initial load of Watcher w ended with an error
InitialLoadFailed(w) == newPc[w] = "done" /\ newErr[w] # {}

\* the source of w holds a document that loads
SourceLoads(w) == ReadFile(file[w]).err = "" /\ readConfigMap(file[w]).errs = {}

\* C11: watcher.New returns the Watcher together with the error of the
\* initial load, and the monitoring loop and the forwarding loop are started
\* whether or not that load succeeded; a failed load leaves the monitoring
\* loop running, and unless the facade shuts down a change event that finds
\* a valid document in the source is loaded and published and its
\* announcement is taken by the forwarding loop.
C11_FailedLoadKeepsMonitoring ==
    /\ [](\A w \in Watchers : newPc[w] = "done" =>
            /\ monPc[w] # "off" /\ fwdPc[w] # "off"
            /\ ~ctxDone => MonitorRunning(w) /\ fwdPc[w] \in {"select", "lock", "range"})
    /\ [][\A w \in Watchers : (FailedLoad(w) /\ ~ctxDone) => MonitorRunning(w)']_vars
    /\ \A w \in Watchers :
         (InitialLoadFailed(w) /\ ~cm[w].ok /\ fwEvent[w] /\ SourceLoads(w))
           ~> (cm[w].ok \/ ~SourceLoads(w) \/ ctxDone)
    /\ \A w \in Watchers : (monPc[w] = "send") ~> (fwdPc[w] = "lock" \/ ctxDone)

\* the initial load failed on a source that is not yaml, a later write was
\* loaded and published by the monitoring loop, and the forwarding loop has
\* taken its change event
C11_Witness ==
    /\ InitialLoadFailed(1) /\ newErr[1] = {<<"yaml: unmarshal errors">>}
    /\ cm[1].ok /\ cm[1].val = DocA
    /\ monPc[1] = "select" /\ fwdPc[1] = "lock"

\* C12 as stated: watcher.New on a source that does not exist yet returns a
\* usable Watcher together with the initial error, and the forwarding loop
\* the facade attaches to it does not fail.
C12_MissingSourceConstructs ==
    \A w \in Watchers :
      (newPc[w] \in {"done", "nil"} /\ newErr[w] # {}) =>
        /\ newPc[w] = "done"
        /\ MonitorRunning(w)
        /\ fwdPc[w] \in {"select", "lock", "range"}

\* C13 as stated: while a Watcher has never published a snapshot, Config()
\* on it returns a not-yet-available indication without failing, and a
\* lookup of any triple on Watchers that have published nothing fails with
\* "namespace no found".
C13_UnpublishedLookupNotFound ==
    (qry.op = "getNamespace" /\ \A w \in Held : newPc[w] = "done") =>
      /\ \A i \in DOMAIN qry.ws : qry.ws[i].kind # "panic"
      /\ (\A i \in DOMAIN qry.ws : qry.ws[i].kind # "snap") => qry.out = NamespaceNotFound

\* what the validation asks of a namespace and of a document
NamespaceAccepted(n) ==
    /\ ~n.Properties.isNil \/ n.Yml # "" \/ n.Yaml # "" \/ n.XML # ""
    /\ \A k \in DOMAIN n.Properties.kv : k # ""

Accepted(c) ==
    /\ DOMAIN c # {}
    /\ \A a \in DOMAIN c :
         /\ a # "" /\ DOMAIN c[a] # {}
         /\ \A cl \in DOMAIN c[a] :
              /\ cl # "" /\ DOMAIN c[a][cl] # {}
              /\ \A n \in DOMAIN c[a][cl] : n # "" /\ NamespaceAccepted(c[a][cl][n])

\* C14: a parsed document is accepted, and published, exactly when it has an
\* app, every app has a name and a cluster, every cluster a name and a
\* namespace, every namespace a name and either non-nil properties (empty
\* ones will do) or a non-empty yml, yaml or xml blob (a json blob alone
\* will not), and no properties key is empty.
C14_AcceptedIffWellFormed ==
    [][\A w \in Watchers : NewLoad(w) =>
         /\ newErr'[w] = {} <=> Accepted(newBuf[w].cm)
         /\ Accepted(newBuf[w].cm) => cm'[w] = [ok |-> TRUE, val |-> newBuf[w].cm]
         /\ ~Accepted(newBuf[w].cm) => cm'[w] = cm[w]]_vars

\* a document whose namespaces have empty-but-present properties in one case
\* and nothing but a yml blob in the other was accepted and published
C14_Witness ==
    /\ newPc[1] = "done" /\ newErr[1] = {}
    /\ cm[1] = [ok |-> TRUE,
                val |-> "app" :> ("cluster" :> (("ns" :> NsEmptyProps) @@ ("ns2" :> NsYmlOnly)))]

\* C15: a load of an empty document fails with exactly "invalid config
\* file" and publishes nothing, whichever path loads it; apollo.New on such
\* a source returns that error, and the facade holds the Watcher, which is
\* not nil and has its loops running.
C15_EmptyDocumentRejected ==
    [][\A w \in Watchers :
         /\ (NewLoad(w) /\ newBuf[w] = SrcYaml(DocEmpty)) =>
              /\ newErr'[w] = {<<"invalid config file">>}
              /\ cm'[w] = cm[w]
              /\ newPc'[w] = "done" /\ w \in Held'
              /\ MonitorRunning(w)' /\ fwdPc'[w] = "select"
         /\ (MonLoad(w) /\ monBuf[w] = SrcYaml(DocEmpty)) =>
              /\ readConfigMap(monBuf[w]).errs = {<<"invalid config file">>}
              /\ cm'[w] = cm[w]
              /\ ~EmitsEvent(w)]_vars

\* apollo.New has returned "invalid config file" on an empty source; the
\* facade holds the Watcher, which has published nothing
C15_Witness ==
    /\ newPc[1] = "done" /\ newErr[1] = {<<"invalid config file">>}
    /\ Held = {1} /\ ~cm[1].ok
    /\ file[1] = SrcYaml(DocEmpty) /\ fwdPc[1] = "select"

\* the extensions the namespace tokens are said to carry
DotProperties == <<".", "p", "r", "o", "p", "e", "r", "t", "i", "e", "s">>
DotYml == <<".", "y", "m", "l">>
DotYaml == <<".", "y", "a", "m", "l">>
DotJson == <<".", "j", "s", "o", "n">>
DotXml == <<".", "x", "m", "l">>
RecognizedExtensions == {DotProperties, DotYml, DotYaml, DotJson, DotXml}

\* C16 as stated: parseNamespace maps a token that ends in .properties,
\* .yml, .xml, .json or .yaml to the token without that extension and the
\* extension, and a token with no extension to the token and ".properties".
C16_ParseNamespaceStrips ==
    qry.op = "parseNamespace" =>
      /\ \A e \in RecognizedExtensions :
           HasSuffix(qry.token, e) => qry.out = <<Str(TrimSuffix(qry.token, e)), Str(e)>>
      /\ (\A i \in DOMAIN qry.token : qry.token[i] # ".") =>
           qry.out = <<Str(qry.token), ".properties">>

\* C17 as stated: getNamespaceConfig returns the properties for
\* ".properties", a content wrapper with the yaml blob for ".yml" and
\* ".yaml", with the xml blob for ".xml", with the json blob (valid json or
\* not) for ".json", and the "non-support format" error for anything else.
C17_ProjectionByFormat ==
    qry.op = "getNamespaceConfig" =>
      LET e == qry.extension
          n == qry.namespace
      IN /\ e = ".properties" => qry.out = [err |-> "", cfg |-> PropertiesOf(n.Properties)]
         /\ e \in {".yml", ".yaml"} => qry.out = [err |-> "", cfg |-> ContentOf(n.Yaml)]
         /\ e = ".xml" => qry.out = [err |-> "", cfg |-> ContentOf(n.XML)]
         /\ e = ".json" => qry.out = [err |-> "", cfg |-> ContentOf(n.JSON)]
         /\ e \notin {".properties", ".yml", ".yaml", ".xml", ".json"} =>
              qry.out = [err |-> "non-support format", cfg |-> NilConfig]

\* snapshot c holds the triple
Contains(c, appID, cluster, namespace) ==
    /\ appID \in DOMAIN c
    /\ cluster \in DOMAIN c[appID]
    /\ namespace \in DOMAIN c[appID][cluster]

\* the Watchers of a lookup whose snapshot holds the triple looked up
Holders(q) ==
    {i \in DOMAIN q.ws : /\ q.ws[i].kind = "snap"
                          /\ Contains(q.ws[i].val, q.appID, q.cluster, q.namespace)}

Published(q) == \A i \in DOMAIN q.ws : q.ws[i].kind = "snap"

\* C18 as stated: with one snapshot S published, the lookup of a triple that
\* S holds returns S[app][cluster][namespace], also when several apps of S
\* use the same cluster and namespace names.
C18_LookupReturnsTriple ==
    (qry.op = "getNamespace" /\ Published(qry) /\ Len(qry.ws) = 1 /\ Holders(qry) = {1}) =>
      qry.out = NamespaceFound(qry.ws[1].val[qry.appID][qry.cluster][qry.namespace])

\* C19 as stated: the lookup of a triple that no Watcher's snapshot holds
\* fails with "namespace no found", also when cluster and namespace exist
\* under another app.
C19_AbsentTripleNotFound ==
    (qry.op = "getNamespace" /\ Published(qry) /\ Holders(qry) = {}) =>
      qry.out = NamespaceNotFound

\* C20 as stated: when the snapshots of several Watchers hold the triple,
\* the lookup returns the NamespaceConfig of the first of them in a.w.
C20_FirstRegisteredWins ==
    (qry.op = "getNamespace" /\ Published(qry) /\ Cardinality(Holders(qry)) >= 2) =>
      LET first == CHOOSE i \in Holders(qry) : \A j \in Holders(qry) : i <= j
      IN qry.out = NamespaceFound(qry.ws[first].val[qry.appID][qry.cluster][qry.namespace])

\* C21 as stated: a query whose namespace token carries an extension other
\* than the recognized ones fails with the "non-support format" error.
C21_UnknownExtensionNotSupported ==
    (qry.op = "queryConfig" /\ Len(Ext(qry.token)) > 1
       /\ Ext(qry.token) \notin RecognizedExtensions) =>
      qry.out = QueryFailed("non-support format")

\* C22: a change event is not kept for later sessions. A session becomes
\* Changed only in the range of a broadcast that lists it; the list of a
\* broadcast is the registry as it was when the broadcast took the lock, and
\* a broadcast takes the lock once per event received; a session that
\* registers is in no list and stays Pending, and the end of the range
\* leaves nothing of the event behind.
C22_EventsAreNotBuffered ==
    /\ [][\A p \in Sessions : (sState[p] = "Pending" /\ sState'[p] = "Changed") =>
            \E w \in Watchers : fwdPc[w] = "range" /\ p \in fwdTodo[w] /\ p \in polls]_vars
    /\ [][\A w \in Watchers :
            /\ ~(fwdTodo'[w] \subseteq fwdTodo[w]) => (FwdLock(w) /\ fwdTodo'[w] = polls)
            /\ (fwdPc[w] # "lock" /\ fwdPc'[w] = "lock") => Forward(w)
            /\ FwdUnlock(w) => (fwdTodo'[w] = {} /\ fwdPc'[w] = "select")]_vars
    /\ [][\A p \in Sessions : Register(p) =>
            /\ sState'[p] = "Pending" \/ sCause'[p] \in {"timeout", "cancel"}
            /\ \A w \in Watchers : p \notin fwdTodo'[w]]_vars

\* a broadcast has resolved the first session and ended; the second
\* session, registered since, is waiting and still Pending
C22_Witness ==
    /\ sCause[1] = "event" /\ sPc[1] = "returned"
    /\ sPc[2] = "wait" /\ 2 \in polls /\ sState[2] = "Pending"
    /\ fwdPc[1] = "select" /\ monPc[1] = "select" /\ ~fwEvent[1] /\ mu = 0

\* C23: change detection is whole-source. The broadcast of any Watcher lists
\* every session registered when it takes the lock, and its visit resolves a
\* Pending session as Changed with the notifications the session asked
\* with, whatever they name and whichever Watcher received the event; while
\* nothing times out or is cancelled, every session a broadcast has visited
\* is Changed.
C23_AnyWatcherWakesAll ==
    /\ [][\A w \in Watchers :
            /\ FwdLock(w) => fwdTodo'[w] = polls
            /\ \A p \in Sessions : (FwdUpdate(w, p) /\ sState[p] = "Pending") =>
                 /\ sState'[p] = "Changed" /\ sCause'[p] = "event"
                 /\ sResp'[p] = ChangedResponse(p)]_vars
    /\ [](\A w \in Watchers : fwdPc[w] = "range" =>
            \A p \in polls \ fwdTodo[w] :
              sState[p] = "Changed" /\ sResp[p] = ChangedResponse(p))

\* the broadcast of the second Watcher has visited every session, which
\* asked about different namespaces, and all are Changed; the first Watcher
\* has an event of its own to broadcast and waits for the lock
C23_Witness ==
    /\ fwdPc[2] = "range" /\ fwdTodo[2] = {} /\ mu = 2
    /\ polls = Sessions
    /\ \A p \in Sessions : sState[p] = "Changed" /\ sResp[p] = ChangedResponse(p)
    /\ sNotif[1] # sNotif[2]
    /\ fwdPc[1] = "lock"

\* apollo.New has returned: a.watch has returned an error, or has returned
\* for the last source
NewReturned ==
    \E w \in Configured :
      newPc[w] \in {"done", "nil"} /\ (newErr[w] # {} \/ w + 1 \notin Configured)

\* C24 as stated: once apollo.New has returned, the facade holds one Watcher
\* for each configured source, in the order of the sources and each with
\* its forwarding loop started, also when an initial load has failed.
C24_OneWatcherPerSource ==
    NewReturned =>
      /\ Held = Configured
      /\ \A w \in Configured : newPc[w] = "done" /\ fwdPc[w] # "off"

\* C25: a session is registered before it waits and deregistered after it
\* has resolved: a waiting session is in the registry, a session resolves
\* (by a change event, its timeout or its cancellation) only while it is
\* registered and waiting, and only a resolved session leaves the registry.
C25_RegisteredWhileWaiting ==
    /\ [](\A p \in Sessions :
            /\ sPc[p] = "wait" => p \in polls
            /\ Resolved(p) => sPc[p] \in {"wait", "returned"})
    /\ [][\A p \in Sessions :
            /\ (~Resolved(p) /\ Resolved(p)') => (p \in polls /\ sPc[p] = "wait")
            /\ (p \in polls /\ p \notin polls') => (Resolved(p) /\ sPc'[p] = "returned")
            /\ (p \notin polls /\ p \in polls') => (~Resolved(p) /\ sPc[p] = "created")]_vars

\* a broadcast has run to its end while the second session was created but
\* not yet registered: the first session is Changed, the second Pending
C25_Witness ==
    /\ sPc[2] = "created" /\ sState[2] = "Pending" /\ 2 \notin polls
    /\ fwdPc[1] = "range" /\ fwdTodo[1] = {} /\ polls = {1}
    /\ sState[1] = "Changed"

\* the forwarding loops that are inside their broadcast (between a.mu.Lock()
\* and a.mu.Unlock())
Broadcasting == {w \in Watchers : fwdPc[w] = "range"}

\* C26: the registry is touched only under the one lock: at most one
\* forwarding loop is inside its broadcast and it is the holder of the lock,
\* the registry does not change while a broadcast is running (so what is
\* left to iterate stays inside it), and a session is added or removed only
\* while no broadcast holds the lock.
C26_RegistryUnderLock ==
    /\ [](/\ Cardinality(Broadcasting) <= 1
          /\ \A w \in Watchers : (fwdPc[w] = "range") <=> (mu = w)
          /\ \A w \in Broadcasting : fwdTodo[w] \subseteq polls)
    /\ [][/\ (Broadcasting # {} \/ Broadcasting' # {}) => polls' = polls
          /\ polls' # polls => (mu = 0 /\ mu' = 0)]_vars

\* the first Watcher's loop is inside its broadcast while the second one
\* holds an event and a created session waits to be registered
C26_Witness ==
    /\ fwdPc[1] = "range" /\ mu = 1 /\ fwdTodo[1] = {1}
    /\ fwdPc[2] = "lock"
    /\ sPc[2] = "created" /\ polls = {1}

\* the forwarding loop of w receives from w.UpdateEvent in this step
Received(w) == fwdPc[w] = "select" /\ fwdPc'[w] = "lock"

\* C27: delivery of the change event is a rendezvous: a monitored load goes
\* on to the send exactly when it succeeded; while the monitoring loop is at
\* the send it takes no source event; it leaves the send only in the step in
\* which the forwarding loop receives, and every receive of the forwarding
\* loop ends one send. So sends and receives pair up one to one.
C27_Rendezvous ==
    [][\A w \in Watchers :
        /\ (monPc[w] = "parse" /\ monPc'[w] # "parse") =>
              (monPc'[w] = "send" <=> readConfigMap(monBuf[w]).errs = {})
        /\ (monPc[w] # "send" /\ monPc'[w] = "send") => monPc[w] = "parse"
        /\ monPc[w] = "send" => (fwEvent[w] => fwEvent'[w]) /\ monBuf'[w] = monBuf[w]
        /\ (monPc[w] = "send" /\ monPc'[w] # "send") => (Received(w) /\ monPc'[w] = "select")
        /\ Received(w) => (monPc[w] = "send" /\ monPc'[w] = "select")]_vars

\* the monitoring loop is held at the send with the next source event
\* waiting, because the forwarding loop is still inside its broadcast
C27_Witness ==
    /\ monPc[1] = "send" /\ fwEvent[1]
    /\ fwdPc[1] = "range" /\ fwdTodo[1] # {}

\* a namespace, a document, with an embedded yml, yaml or json text that
\* does not parse
MalformedBlob(n) ==
    \/ UnmarshalYamlMap(n.Yml) # ""
    \/ UnmarshalYamlMap(n.Yaml) # ""
    \/ n.JSON # "" /\ UnmarshalJSONList(n.JSON) # ""

HasMalformedBlob(c) ==
    \E a \in DOMAIN c : \E cl \in DOMAIN c[a] : \E n \in DOMAIN c[a][cl] :
        MalformedBlob(c[a][cl][n])

\* C28: a document that passes the validation and carries a malformed yml,
\* yaml or json text loads without error, and the snapshot published is the
\* document as parsed, malformed text included.
C28_MalformedBlobLoads ==
    [][\A w \in Watchers :
         (NewLoad(w) /\ Accepted(newBuf[w].cm) /\ HasMalformedBlob(newBuf[w].cm)) =>
            /\ newErr'[w] = {}
            /\ cm'[w] = [ok |-> TRUE, val |-> newBuf[w].cm]]_vars

\* a document with a malformed yaml text in one namespace and a malformed
\* json text in the other was loaded without error and published as it is
C28_Witness ==
    /\ newPc[1] = "done" /\ newErr[1] = {}
    /\ cm[1] = [ok |-> TRUE,
                val |-> "app" :> ("cluster" :> (("ns" :> NsBadYaml) @@ ("ns2" :> NsBadJson)))]
    /\ cm[1].val["app"]["cluster"]["ns"].Yaml = "[raw]"
    /\ cm[1].val["app"]["cluster"]["ns2"].JSON = "[raw]"

Max(a, b) == IF a >= b THEN a ELSE b

\* C29: the interval a Watcher polls with is max(requested, one second): a
\* requested interval below one second, the zero of the facade included,
\* becomes one second, and one of a second or more is kept.
C29_IntervalFloor ==
    qry.op = "validateConfig" =>
      /\ qry.out = Max(qry.interval, Second)
      /\ qry.interval < Second => qry.out = Second
      /\ qry.interval >= Second => qry.out = qry.interval

\* validateConfig was given the interval the facade passes and made it one
\* second
C29_Witness ==
    /\ qry.op = "validateConfig" /\ qry.interval = FacadeWatchInterval
    /\ qry.out = Second

\* session p is resolved Changed by a change event in this step
WokenByEvent(p) ==
    sState[p] = "Pending" /\ sState'[p] = "Changed" /\ sCause'[p] = "event"

\* the source of w holds a document that loads, the monitoring loop has
\* taken every source event and is back at its select
SourceLoaded(w) ==
    /\ file[w].kind = "yaml" /\ ValidationErrors(file[w].cm) = {}
    /\ monPc[w] = "select" /\ ~fwEvent[w]

\* C30 as stated: publish precedes notify, so the request woken by a change
\* event reads the snapshot of that event or a newer one. When the source
\* has not been written since the load that offered the event, there is no
\* newer one: Config() of the broadcasting Watcher then gives the document
\* the source holds.
C30_WokenReadsEventSnapshot ==
    [][\A p \in Sessions : \A w \in Watchers :
         (WokenByEvent(p) /\ fwdPc[w] = "range" /\ p \in fwdTodo[w] /\ SourceLoaded(w)) =>
            Config(w) = [kind |-> "snap", val |-> file[w].cm]]_vars

\* both background loops of w have returned (or were never started)
LoopsReturned(w) ==
    /\ monPc[w] \in {"off", "closed"}
    /\ fwdPc[w] \in {"off", "stopped"}

\* C31 as stated: once the context is cancelled, the forwarding loop of
\* every Watcher returns and its monitoring loop closes the change detector
\* and returns, also when the monitoring loop is at the send on updateChan
\* at that moment.
C31_LoopsTerminateOnCancel ==
    ctxDone ~> (\A w \in Watchers : LoopsReturned(w))

\* the steps in which the monitoring loop of w ends the handling of a source
\* event with an error: the file could not be read, or readConfigMap failed
FailedMonitoredLoad(w) ==
    \/ MonEvent(w) /\ monPc'[w] = "select"
    \/ MonLoad(w) /\ readConfigMap(monBuf[w]).errs # {}

\* C32: TriggerEvent does nothing but hand the monitoring loop a source
\* event, the same one a write of the source gives it. The load of that
\* event, when it fails, emits no change event and leaves the snapshot and
\* every session as they were; when it succeeds, it replaces the snapshot
\* and offers one change event; and a change event is offered by nothing
\* but a successful monitored load.
C32_TriggerEventLoads ==
    [][\A w \in Watchers :
         /\ TriggerEvent(w) =>
              /\ fwEvent'[w]
              /\ UNCHANGED <<file, cm, monPc, fwdPc, polls>> /\ UNCHANGED svars
         /\ FailedMonitoredLoad(w) =>
              /\ cm'[w] = cm[w] /\ ~EmitsEvent(w) /\ monPc'[w] = "select"
              /\ UNCHANGED <<fwdPc, polls>> /\ UNCHANGED svars
         /\ (MonLoad(w) /\ readConfigMap(monBuf[w]).errs = {}) =>
              /\ cm'[w] = [ok |-> TRUE, val |-> monBuf[w].cm]
              /\ EmitsEvent(w)
         /\ EmitsEvent(w) =>
              (monPc[w] = "parse" /\ readConfigMap(monBuf[w]).errs = {})]_vars

\* the source holds bytes that are not yaml and the event on it has been
\* handled: the snapshot loaded before is still published, no change event
\* is on offer and both sessions are registered and Pending
C32_Witness ==
    /\ file[1] = SrcMalformed /\ newPc[1] = "done"
    /\ monPc[1] = "select" /\ ~fwEvent[1] /\ fwdPc[1] = "select"
    /\ cm[1] = [ok |-> TRUE, val |-> DocA]
    /\ polls = Sessions /\ \A p \in Sessions : sState[p] = "Pending"

RECURSIVE Reverse(_)
Reverse(q) == IF q = <<>> THEN <<>> ELSE Append(Reverse(Tail(q)), Head(q))

IsInsert(c) == c.fn = "Insert"
IsSet(c) == c.fn = "Set"
ValuesOf(calls) == [k \in DOMAIN calls |-> calls[k].value]

\* C33: after any calls of Set and Insert the array is the inserted values,
\* last inserted first, followed by the Set values in the order of their
\* calls; so when every -file argument was Set and the file written from the
\* environment is inserted last, that file is the first element, ahead of
\* the -file arguments in their order.
C33_InsertsBeforeSets ==
    qry.op = "FlagArray" =>
      /\ qry.out = Reverse(ValuesOf(SelectSeq(qry.calls, IsInsert)))
                      \o ValuesOf(SelectSeq(qry.calls, IsSet))
      /\ \A n \in 1..Len(qry.calls) :
            ((\A k \in 1..(n - 1) : IsSet(qry.calls[k])) /\ IsInsert(qry.calls[n])
                /\ n = Len(qry.calls)) =>
              /\ qry.out[1] = qry.calls[n].value
              /\ Tail(qry.out) = ValuesOf(SubSeq(qry.calls, 1, n - 1))

\* two -file arguments were Set and the file of the environment inserted:
\* it is the first of the three
C33_Witness ==
    /\ qry.op = "FlagArray"
    /\ qry.calls = <<SetCall("a.yaml"), SetCall("b.yaml"), InsertCall("mock_1.yaml")>>
    /\ qry.out = <<"mock_1.yaml", "a.yaml", "b.yaml">>

====
